---- MODULE Spec2Model ----
(***************************************************************************)
(* Model of the Futuretools listing extractor                              *)
(* (src/futuretools_parser.py, extract_tools_from_futuretools), of the     *)
(* summarizer wrapper it calls (src/text_summarizer.py, summarize_text)    *)
(* and of the fetcher outcome it consumes (src/web_parser.py).             *)
(*                                                                         *)
(* Strings are TLA+ strings; the Python string operations the code uses    *)
(* (startswith, in, strip, split, slicing, +) are computed character by    *)
(* character with Len, SubSeq and \o.  The only whitespace character of    *)
(* the modelled texts is the space.                                        *)
(*                                                                         *)
(* A document is a sequence of top-level elements, each with a sequence of *)
(* child elements (its descendants in document order).  An element has a   *)
(* tag, a list of class tokens, an optional href (<<>> when the attribute  *)
(* is absent, <<h>> when it is h) and one text node.  The per-container    *)
(* diagnostic prints (the "Info: Tool i ..." lines) are not part of the    *)
(* state; the run-level prints are kept in log.                            *)
(***************************************************************************)
EXTENDS Integers, Sequences, FiniteSets, TLC

VARIABLES
    page,               \* the static document tree the fetcher parses
    summarizer,         \* text_summarizer.summarizer: "None" or a pipeline mode
    pc,                 \* position of the caller / extractor
    run,                \* number of the current call of extract_tools_from_futuretools
    parsed,             \* outcome of fetch_and_parse_website in the current call
    tool_containers,    \* the selected containers of the current call
    idx,                \* number of containers already processed by the loop
    tools_found,        \* the list being built / returned
    src_index,          \* for each record of tools_found, the index of its container
    counts,             \* the five counters of lines 95-99
    cur,                \* the loop's local variables after the last iteration
    calls,              \* the calls of summarize_text made in the current call
    log,                \* the run-level prints of the current call
    returned,           \* the lists returned by the finished calls, in call order
    data,               \* the data argument handed to the presenters
    source_type,        \* the source_type argument handed to the presenters
    formatted           \* the presenter calls made so far, each with its outcome

vars == <<page, summarizer, pc, run, parsed, tool_containers, idx, tools_found,
          src_index, counts, cur, calls, log, returned, data, source_type, formatted>>

\* the arguments and outcomes of information_organizer.py's two functions
presenterVars == <<data, source_type, formatted>>

(***************************************************************************)
(* Bounds of the model.                                                    *)
(***************************************************************************)
MaxKids == 2          \* descendants of a container in a one-container page
MaxContainers == 2    \* top-level elements of a several-container page
MaxRuns == 2          \* successive calls of the extractor on the same page

(***************************************************************************)
(* Python string operations.                                               *)
(***************************************************************************)
Ch(s, i) == SubSeq(s, i, i)

StartsWith(s, p) == Len(s) >= Len(p) /\ SubSeq(s, 1, Len(p)) = p

\* p in s
Contains(s, p) == \E i \in 1..(Len(s) - Len(p) + 1) : SubSeq(s, i, i + Len(p) - 1) = p

SetMin(S) == CHOOSE x \in S : \A y \in S : x <= y

NonSpace(s) == {i \in 1..Len(s) : Ch(s, i) # " "}

RECURSIVE SkipSpaces(_, _)
\* the first position from i on that holds no space, Len(s) + 1 if none
SkipSpaces(s, i) ==
    IF i > Len(s) THEN i
    ELSE IF Ch(s, i) = " " THEN SkipSpaces(s, i + 1)
    ELSE i

RECURSIVE SkipSpacesBack(_, _)
\* the last position up to i that holds no space, 0 if none
SkipSpacesBack(s, i) ==
    IF i < 1 THEN 0
    ELSE IF Ch(s, i) = " " THEN SkipSpacesBack(s, i - 1)
    ELSE i

\* s.strip()
Strip(s) == SubSeq(s, SkipSpaces(s, 1), SkipSpacesBack(s, Len(s)))

\* positions where a whitespace-separated word of s starts / ends
WordStarts(s) == {i \in NonSpace(s) : i = 1 \/ Ch(s, i - 1) = " "}
WordEnds(s) == {i \in NonSpace(s) : i = Len(s) \/ Ch(s, i + 1) = " "}

\* len(s.split())
WordCount(s) == Cardinality(WordStarts(s))

\* s[n:]
SliceFrom(s, n) == SubSeq(s, n + 1, Len(s))

\* the first n words of s, up to the end of the n-th word
FirstWords(s, n) ==
    IF WordCount(s) <= n THEN Strip(s)
    ELSE LET e == CHOOSE i \in WordEnds(s) :
                      Cardinality({j \in WordEnds(s) : j <= i}) = n
         IN  SubSeq(s, SkipSpaces(s, 1), e)

RECURSIVE JoinWith(_, _)
\* sep.join(parts)
JoinWith(parts, sep) ==
    IF parts = <<>> THEN ""
    ELSE IF Len(parts) = 1 THEN parts[1]
    ELSE parts[1] \o sep \o JoinWith(Tail(parts), sep)

(***************************************************************************)
(* The document tree and the BeautifulSoup queries the code makes.         *)
(***************************************************************************)
Node(tag, cls, href, text, kids) ==
    [tag |-> tag, cls |-> cls, href |-> href, text |-> text, kids |-> kids]

Leaf(tag, cls, href, text) == Node(tag, cls, href, text, <<>>)

NoHref == <<>>
Href(h) == <<h>>

\* tag.get('href', default)
GetHref(n, default) == IF n.href = NoHref THEN default ELSE n.href[1]

\* the class attribute as written in the document
ClassAttr(n) == JoinWith(n.cls, " ")

\* class_=[...] of find: some class token of the element is in the list
HasClassIn(n, names) == \E k \in 1..Len(n.cls) : n.cls[k] \in names

\* the stripped, non-empty text nodes of n in document order
Strings(n) ==
    LET all == <<Strip(n.text)>> \o [k \in 1..Len(n.kids) |-> Strip(n.kids[k].text)]
    IN  SelectSeq(all, LAMBDA t : t # "")

\* n.get_text(strip=True)
GetText(n) == JoinWith(Strings(n), "")

\* n.get_text(separator=' ', strip=True)
GetTextSep(n) == JoinWith(Strings(n), " ")

\* the positions of the descendants of a container, in document order
Kids(n) == 1..Len(n.kids)

\* container.find(...): the first of the matching positions, 0 for None
Find(positions) == IF positions = {} THEN 0 ELSE SetMin(positions)

RECURSIVE Flatten(_)
\* every element of the document in document order
Flatten(nodes) ==
    IF nodes = <<>> THEN <<>>
    ELSE <<nodes[1]>> \o nodes[1].kids \o Flatten(Tail(nodes))

\* soup.select('[class*="..."]') for a list of alternative substrings
Select(doc, subs) ==
    SelectSeq(Flatten(doc), LAMBDA n : \E sub \in subs : Contains(ClassAttr(n), sub))

(***************************************************************************)
(* Texts and elements the modelled documents are built from.               *)
(***************************************************************************)
W10 == "a b c d e f g h i j"
Words30 == W10 \o " " \o W10 \o " " \o W10
Words31 == Words30 \o " k"

HeadingEmpty == Leaf("h3", <<>>, NoHref, "")
HeadingName == Leaf("h3", <<"tool-name">>, NoHref, "Acme AI")
TitleLink == Leaf("a", <<"title">>, Href("/tool/acme-ai"), "Acme")
PlainLink == Leaf("a", <<>>, Href("https://acme.example/"), " Visit ")
MarkerLink == Leaf("a", <<"external-link">>, Href("https://www.futuretools.io/go"), "")
HttpFile == Leaf("a", <<>>, Href("http.html"), "")
DescEmpty == Leaf("p", <<"description">>, NoHref, " ")
DescLong == Leaf("p", <<"tool-card-description">>, NoHref, Words31)
Para30 == Leaf("p", <<>>, NoHref, Words30)
SpanText == Leaf("span", <<>>, NoHref, "writes release notes for your team")
MarkerFile == Leaf("a", <<"outbound">>, Href("http.html"), "Acme")
LinkTextSpan == Leaf("span", <<>>, NoHref, "https://www.futuretools.io/tools/acme")

KidPool == {HeadingEmpty, HeadingName, TitleLink, PlainLink, MarkerLink,
            HttpFile, DescEmpty, DescLong, Para30, SpanText}

SeqsUpTo(S, n) == UNION {[1..k -> S] : k \in 0..n}

\* containers of the one-container pages: any descendants, two kinds of container
CardShell(kids) == Node("div", <<"tool-card">>, NoHref, "", kids)
LinkShell(kids) == Node("a", <<"w-dyn-item">>, Href("/tools/acme"), "", kids)

RichContainers ==
    {CardShell(ks) : ks \in SeqsUpTo(KidPool, MaxKids)}
        \cup {LinkShell(ks) : ks \in SeqsUpTo(KidPool, MaxKids)}

\* containers of the several-container pages
PlainContainers ==
    { CardShell(<<TitleLink>>),
      CardShell(<<PlainLink, DescLong>>),
      CardShell(<<HeadingName>>),
      CardShell(<<MarkerFile, PlainLink>>),
      LinkShell(<<HeadingName, LinkTextSpan>>),
      Node("div", <<"collection-item">>, NoHref, "", <<TitleLink>>),
      Node("div", <<"hero">>, NoHref, "", <<HeadingName>>) }

Pages == {<<c>> : c \in RichContainers} \cup SeqsUpTo(PlainContainers, MaxContainers)

(***************************************************************************)
(* Program constants.                                                      *)
(***************************************************************************)
NA == "N/A"
base_url_ft == "https://www.futuretools.io"
SummarizeOverWords == 30     \* len(description.split()) > 30
ParagraphOverChars == 20     \* len(p_text) > 20
ContainerTextOverChars == 30 \* len(container_text) > 30
SummaryMaxLength == 50       \* max_length=50
SummaryMinLength == 15       \* min_length=15

HeadingTags == {"h2", "h3", "h4"}
NameHeadingClasses == {"tool-name", "tool-title", "card-title"}
NameLinkClasses == {"title", "name"}
ExternalLinkClasses == {"external-link", "website-button", "tool-website-link",
                        "outbound", "visit-tool-button"}
DescriptionClasses == {"description", "tool-description", "card-text",
                       "item-description", "tool-card-description"}

MsgNotInitialized ==
    "Summarization pipeline not initialized. Please check installation and logs."
MsgEmptyInput == "Input text is empty or invalid."
MsgSummarizationError == "Error during summarization: "
PipelineException == "index out of range in self"

(***************************************************************************)
(* text_summarizer.py                                                      *)
(***************************************************************************)
Pipelines == {"abridging", "raising"}

\* summarizer(text, max_length=..., min_length=..., do_sample=False)[0]['summary_text']
\* of a pipeline that does not raise: a deterministic abridgement of the text
PipelineSummary(text, max_length, min_length) == FirstWords(text, min_length)

\* summarize_text(text, max_length, min_length)
summarize_text(text, max_length, min_length) ==
    IF summarizer = "None" THEN MsgNotInitialized
    ELSE IF text = "" \/ Len(Strip(text)) = 0 THEN MsgEmptyInput
    ELSE IF summarizer = "raising" THEN MsgSummarizationError \o PipelineException
    ELSE PipelineSummary(text, max_length, min_length)

(***************************************************************************)
(* futuretools_parser.py: the extraction of one container's fields.        *)
(***************************************************************************)
IsHeading(n) == n.tag \in HeadingTags
IsLink(n) == n.tag = "a"
IsInternalPath(h) == StartsWith(h, "/tool/") \/ StartsWith(h, "/tools/")

\* mutant of NameElement: the last strategy without its check for text
NameElementAnyLink(c) ==
    LET primary == Find({k \in Kids(c) : IsHeading(c.kids[k])
                                              /\ HasClassIn(c.kids[k], NameHeadingClasses)})
        heading == Find({k \in Kids(c) : IsHeading(c.kids[k])})
        link == Find({k \in Kids(c) : IsLink(c.kids[k]) /\ HasClassIn(c.kids[k], NameLinkClasses)})
        first == Find({k \in Kids(c) : IsLink(c.kids[k])})
    IN  IF primary # 0 THEN primary
        ELSE IF heading # 0 THEN heading
        ELSE IF link # 0 THEN link
        ELSE first

\* lines 121-129: the element the selector chain ends with, 0 for None
NameElement(c) ==
    LET primary == Find({k \in Kids(c) : IsHeading(c.kids[k])
                                              /\ HasClassIn(c.kids[k], NameHeadingClasses)})
        heading == Find({k \in Kids(c) : IsHeading(c.kids[k])})
        link == Find({k \in Kids(c) : IsLink(c.kids[k]) /\ HasClassIn(c.kids[k], NameLinkClasses)})
        first == Find({k \in Kids(c) : IsLink(c.kids[k])})
    IN  IF primary # 0 THEN primary
        ELSE IF heading # 0 THEN heading
        ELSE IF link # 0 THEN link
        ELSE IF first # 0 /\ GetText(c.kids[first]) # "" THEN first
        ELSE 0

\* lines 102, 108, 131-141
ExtractName(c) ==
    LET el == NameElement(c)
    IN  IF el # 0
        THEN LET t == GetText(c.kids[el]) IN [value |-> t, has |-> t # ""]
        ELSE [value |-> NA, has |-> FALSE]

\* mutant of AbsoluteFtLink: the relative path kept as it is
UnprefixedFtLink(has, link) == link

\* lines 165-167
AbsoluteFtLink(has, link) ==
    IF has /\ StartsWith(link, "/") THEN base_url_ft \o link ELSE link

\* mutant of ExtractFtLink: the first descendant link with any href is taken
ExtractFtLinkAnyHref(c) ==
    LET own == IsLink(c) /\ IsInternalPath(GetHref(c, ""))
        el == Find({k \in Kids(c) : /\ IsLink(c.kids[k])
                                      /\ c.kids[k].href # NoHref
                                      /\ c.kids[k].href[1] # ""})
        has == own \/ el # 0
        raw == IF own THEN GetHref(c, "")
               ELSE IF el # 0 THEN c.kids[el].href[1]
               ELSE NA
    IN  [value |-> AbsoluteFtLink(has, raw), has |-> has]

\* lines 143-167
ExtractFtLink(c) ==
    LET own == IsLink(c) /\ IsInternalPath(GetHref(c, ""))
        el == Find({k \in Kids(c) : /\ IsLink(c.kids[k])
                                      /\ c.kids[k].href # NoHref
                                      /\ c.kids[k].href[1] # ""
                                      /\ IsInternalPath(c.kids[k].href[1])})
        has == own \/ el # 0
        raw == IF own THEN GetHref(c, "")
               ELSE IF el # 0 THEN c.kids[el].href[1]
               ELSE NA
    IN  [value |-> AbsoluteFtLink(has, raw), has |-> has]

\* line 175
ValidMarkedHref(h) == h # "" /\ StartsWith(h, "http") /\ ~Contains(h, "futuretools.io")

\* line 188
ValidFallbackHref(h, ft_link) ==
    StartsWith(h, "http") /\ ~Contains(h, "futuretools.io") /\ h # ft_link

\* mutant of ExtractWebsiteLink: a rejected marked link falls back to the
\* generic search
ExtractWebsiteLinkSubstituting(c, ft_link) ==
    LET el == Find({k \in Kids(c) : IsLink(c.kids[k])
                                         /\ HasClassIn(c.kids[k], ExternalLinkClasses)})
        all == SelectSeq(c.kids, LAMBDA n : IsLink(n) /\ n.href # NoHref)
        good == SelectSeq(all, LAMBDA n : ValidFallbackHref(n.href[1], ft_link))
    IN  IF el # 0 /\ ValidMarkedHref(GetHref(c.kids[el], ""))
        THEN [value |-> GetHref(c.kids[el], ""), has |-> TRUE]
        ELSE IF good # <<>> THEN [value |-> good[1].href[1], has |-> TRUE]
        ELSE [value |-> NA, has |-> FALSE]

\* lines 169-196
ExtractWebsiteLink(c, ft_link) ==
    LET el == Find({k \in Kids(c) : IsLink(c.kids[k])
                                         /\ HasClassIn(c.kids[k], ExternalLinkClasses)})
        all == SelectSeq(c.kids, LAMBDA n : IsLink(n) /\ n.href # NoHref)
        good == SelectSeq(all, LAMBDA n : ValidFallbackHref(n.href[1], ft_link))
    IN  IF el # 0
        THEN LET h == GetHref(c.kids[el], "")
             IN  IF ValidMarkedHref(h) THEN [value |-> h, has |-> TRUE]
                 ELSE [value |-> NA, has |-> FALSE]
        ELSE IF good # <<>> THEN [value |-> good[1].href[1], has |-> TRUE]
        ELSE [value |-> NA, has |-> FALSE]

\* lines 199-223
ExtractDescriptionElement(c) ==
    LET el == Find({k \in Kids(c) : /\ c.kids[k].tag \in {"p", "div"}
                                      /\ HasClassIn(c.kids[k], DescriptionClasses)})
        paras == SelectSeq(c.kids, LAMBDA n : n.tag = "p")
        long == SelectSeq(paras, LAMBDA n : GetText(n) # ""
                                            /\ Len(GetText(n)) > ParagraphOverChars)
    IN  IF el # 0
        THEN LET t == GetText(c.kids[el]) IN [value |-> t, has |-> t # ""]
        ELSE IF long # <<>> THEN [value |-> GetText(long[1]), has |-> TRUE]
        ELSE [value |-> NA, has |-> FALSE]

\* mutant of ExtractDescription: the container text used without a resolved name
ExtractDescriptionAnyName(c, name, ft_link) ==
    LET d == ExtractDescriptionElement(c)
        whole == GetTextSep(c)
        rest == IF name.value # NA /\ StartsWith(whole, name.value)
                THEN Strip(SliceFrom(whole, Len(name.value)))
                ELSE whole
    IN  IF ~d.has /\ Len(rest) > ContainerTextOverChars /\ rest # ft_link
        THEN [value |-> rest, has |-> TRUE]
        ELSE d

\* lines 225-239
ExtractDescription(c, name, ft_link) ==
    LET d == ExtractDescriptionElement(c)
        whole == GetTextSep(c)
        rest == IF name.value # NA /\ StartsWith(whole, name.value)
                THEN Strip(SliceFrom(whole, Len(name.value)))
                ELSE whole
    IN  IF ~d.has /\ name.has /\ Len(rest) > ContainerTextOverChars /\ rest # ft_link
        THEN [value |-> rest, has |-> TRUE]
        ELSE d

\* mutant of NeedsSummary: the threshold off by one
NeedsSummaryFrom30(description) ==
    description.has /\ WordCount(description.value) >= SummarizeOverWords

\* line 243
NeedsSummary(description) ==
    description.has /\ WordCount(description.value) > SummarizeOverWords

\* lines 242-246
Summarized(description) ==
    IF NeedsSummary(description)
    THEN summarize_text(description.value, SummaryMaxLength, SummaryMinLength)
    ELSE IF description.has THEN description.value
    ELSE NA

\* lines 102-246: the loop's local variables at line 248
Locals(c) ==
    LET name == ExtractName(c)
        ft == ExtractFtLink(c)
        web == ExtractWebsiteLink(c, ft.value)
        desc == ExtractDescription(c, name, ft.value)
    IN  [name |-> name.value,
         website_link |-> web.value,
         futuretools_link_internal |-> ft.value,
         description |-> desc.value,
         summarized_description |-> Summarized(desc),
         current_tool_has_name |-> name.has,
         current_tool_has_website_link |-> web.has,
         current_tool_has_ft_link |-> ft.has,
         current_tool_has_description |-> desc.has]

\* the locals before any container has been processed
NoLocals ==
    [name |-> NA, website_link |-> NA, futuretools_link_internal |-> NA,
     description |-> NA, summarized_description |-> NA,
     current_tool_has_name |-> FALSE, current_tool_has_website_link |-> FALSE,
     current_tool_has_ft_link |-> FALSE, current_tool_has_description |-> FALSE]

\* mutants of Accepted: the link requirement dropped / both links required
AcceptedNameOnly(l) == l.current_tool_has_name

AcceptedBothLinks(l) ==
    l.current_tool_has_name
        /\ l.current_tool_has_website_link /\ l.current_tool_has_ft_link

\* line 250
Accepted(l) ==
    l.current_tool_has_name
        /\ (l.current_tool_has_website_link \/ l.current_tool_has_ft_link)

\* lines 252-258
ToolRecord(l) ==
    [name |-> l.name,
     website_link |-> l.website_link,
     futuretools_link |-> l.futuretools_link_internal,
     description |-> l.description,
     summarized_description |-> l.summarized_description]

\* mutant of AppendTool: insertion at the front
PrependTool(list, item) == <<item>> \o list

\* line 252: tools_found.append(...)
AppendTool(list, item) == Append(list, item)

\* mutant of NewToolsFound: the list of the previous call kept
KeptToolsFound == tools_found

\* line 37: tools_found = []
NewToolsFound == <<>>

\* lines 95-99
ZeroCounts ==
    [processed_tools_count |-> 0, missing_names_count |-> 0,
     missing_website_links_count |-> 0, missing_ft_links_count |-> 0,
     missing_descriptions_count |-> 0]

B2N(b) == IF b THEN 1 ELSE 0

\* mutant of UpdateCounts: every named container counted as extracted
UpdateCountsNamed(k, l, n_containers) ==
    IF l.current_tool_has_name
    THEN [processed_tools_count |-> k.processed_tools_count + 1,
          missing_names_count |-> k.missing_names_count,
          missing_website_links_count |->
              k.missing_website_links_count + B2N(~l.current_tool_has_website_link),
          missing_ft_links_count |->
              k.missing_ft_links_count + B2N(~l.current_tool_has_ft_link),
          missing_descriptions_count |->
              k.missing_descriptions_count + B2N(~l.current_tool_has_description)]
    ELSE IF n_containers > 0
    THEN [k EXCEPT !.missing_names_count = @ + 1]
    ELSE k

\* lines 250-269
UpdateCounts(k, l, n_containers) ==
    IF Accepted(l)
    THEN [processed_tools_count |-> k.processed_tools_count + 1,
          missing_names_count |->
              k.missing_names_count + B2N(~l.current_tool_has_name),
          missing_website_links_count |->
              k.missing_website_links_count + B2N(~l.current_tool_has_website_link),
          missing_ft_links_count |->
              k.missing_ft_links_count + B2N(~l.current_tool_has_ft_link),
          missing_descriptions_count |->
              k.missing_descriptions_count + B2N(~l.current_tool_has_description)]
    ELSE IF l.current_tool_has_name
    THEN [k EXCEPT !.missing_website_links_count = @ + 1,
                   !.missing_ft_links_count = @ + 1]
    ELSE IF n_containers > 0
    THEN [k EXCEPT !.missing_names_count = @ + 1]
    ELSE k

(***************************************************************************)
(* information_organizer.py: the data the presenters are given.            *)
(*                                                                         *)
(* The data argument is None, a list of tool dicts or a dict of page data; *)
(* keys holds the keys a dict has.  A call either returns a text or raises.*)
(***************************************************************************)
MaxVideos == 2

ListShown == 10
ParagraphShown == 5
SnippetChars == 500
PageSummaryMaxLength == 150
PageSummaryMinLength == 40

MsgInvalidSourceType ==
    "Invalid source_type provided. Use 'futuretools' or 'generic_website'."
MsgNoTools == "No tools data provided or tools list is empty."
MsgNoWebsiteData == "No website data provided."

NoneData ==
    [kind |-> "None", items |-> <<>>, keys |-> {}, text |-> "", links |-> <<>>,
     youtube_videos |-> <<>>]
ListData(tools) == [NoneData EXCEPT !.kind = "list", !.items = tools]
DictData(keys, text, links, videos) ==
    [kind |-> "dict", items |-> <<>>, keys |-> keys, text |-> text, links |-> links,
     youtube_videos |-> videos]

\* bool(data): None, [] and {} are false
Truthy(d) == (d.kind = "list" /\ d.items # <<>>) \/ (d.kind = "dict" /\ d.keys # {})

\* data.get(key, default) of a dict
Get(d, key, default) == IF key \in d.keys THEN d[key] ELSE default

Value(text) == [raised |-> FALSE, value |-> text]
Raises(exc) == [raised |-> TRUE, value |-> exc]

ToolAcme ==
    [name |-> "Acme AI", website_link |-> "https://acme.example/",
     futuretools_link |-> "https://www.futuretools.io/tools/acme",
     description |-> "writes release notes for your team",
     summarized_description |-> "writes release notes for your team"]
ToolBare ==
    [name |-> "Beta", website_link |-> "https://beta.example/", futuretools_link |-> NA,
     description |-> NA, summarized_description |-> NA]
ToolUnsummarized ==
    [name |-> "Gamma", website_link |-> NA,
     futuretools_link |-> "https://www.futuretools.io/tool/gamma",
     description |-> "drafts emails", summarized_description |-> ""]

PageLink(k) ==
    [text |-> "link " \o ToString(k), href |-> "https://site.example/" \o ToString(k)]
PageLinks(n) == [k \in 1..n |-> PageLink(k)]
PageVideo(k) ==
    [title |-> "video " \o ToString(k),
     url |-> "https://www.youtube.com/watch?v=" \o ToString(k)]
PageVideos(n) == [k \in 1..n |-> PageVideo(k)]
PageText == "Release notes, written for you."

DataInputs ==
    {NoneData, ListData(<<>>), ListData(<<ToolAcme>>), ListData(<<ToolAcme, ToolBare>>),
     ListData(<<ToolUnsummarized>>), DictData({}, "", <<>>, <<>>)}
        \cup {DictData({"text"}, t, <<>>, <<>>) : t \in {"", PageText}}
        \cup {DictData({"text", "links", "youtube_videos"}, t, PageLinks(n), PageVideos(v)) :
                  t \in {"", PageText},
                  n \in {0, 1, ParagraphShown + 1, ListShown + 1},
                  v \in 0..MaxVideos}

SourceTypes == {"futuretools", "generic_website", "Futuretools", "table"}

\* the first n elements: seq[:n]
Prefix(seq, n) == SubSeq(seq, 1, IF Len(seq) < n THEN Len(seq) ELSE n)

(***************************************************************************)
(* information_organizer.py: format_data_as_list.                          *)
(***************************************************************************)
\* lines 34-37
ToolListLines(tools) ==
    [j \in 1..(3 * Len(tools)) |->
        LET tool == tools[(j - 1) \div 3 + 1]
        IN  CASE (j - 1) % 3 = 0 -> "\nTool " \o ToString((j - 1) \div 3 + 1) \o ":"
              [] (j - 1) % 3 = 1 -> "  Name: " \o tool.name
              [] OTHER -> "  Website: " \o tool.website_link]

\* lines 47-53
ToolsPageVideoLines(d) ==
    IF d.kind = "dict" /\ "youtube_videos" \in d.keys /\ d.youtube_videos # <<>>
    THEN <<"\n--- YouTube Videos Found on Page ---">>
             \o [j \in 1..(2 * Len(d.youtube_videos)) |->
                    LET video == d.youtube_videos[(j + 1) \div 2]
                    IN  IF j % 2 = 1 THEN "  Title: " \o video.title
                        ELSE "  URL: " \o video.url]
    ELSE <<>>

\* lines 61-68
LinkListLines(links) ==
    IF links # <<>>
    THEN <<"\n--- Hyperlinks ---">>
             \o [j \in 1..(2 * Len(Prefix(links, ListShown))) |->
                    LET i == (j + 1) \div 2
                    IN  IF j % 2 = 1 THEN "  " \o ToString(i) \o ". Text: " \o links[i].text
                        ELSE "     Href: " \o links[i].href]
    ELSE <<"\nNo hyperlinks extracted.">>

\* lines 70-77
VideoListLines(videos) ==
    IF videos # <<>>
    THEN <<"\n--- YouTube Videos ---">>
             \o [j \in 1..(2 * Len(videos)) |->
                    LET i == (j + 1) \div 2
                    IN  IF j % 2 = 1 THEN "  " \o ToString(i) \o ". Title: " \o videos[i].title
                        ELSE "     URL: " \o videos[i].url]
    ELSE <<"\nNo YouTube videos identified.">>

\* mutant of format_data_as_list: an unrecognised source_type is rendered as
\* a generic website
format_data_as_list_any_type(d, st) ==
    IF st = "futuretools"
    THEN IF ~Truthy(d)
         THEN Value(JoinWith(<<"--- AI Tools (List Format) ---", MsgNoTools>>, "\n"))
         ELSE IF d.kind = "dict" THEN Raises("AttributeError")
         ELSE Value(JoinWith(<<"--- AI Tools (List Format) ---">> \o ToolListLines(d.items), "\n"))
    ELSE IF ~Truthy(d)
         THEN Value(JoinWith(<<"--- Website Content (List Format) ---", MsgNoWebsiteData>>, "\n"))
         ELSE IF d.kind = "list" THEN Raises("AttributeError")
         ELSE Value(JoinWith(<<"--- Website Content (List Format) ---">>
                                 \o LinkListLines(Get(d, "links", <<>>))
                                 \o VideoListLines(Get(d, "youtube_videos", <<>>)), "\n"))

\* lines 14-82.  Iterating a non-empty dict yields its keys, and a str has
\* no get (line 36); a list has no get either (line 61).
format_data_as_list(d, st) ==
    IF st = "futuretools"
    THEN IF ~Truthy(d)
         THEN Value(JoinWith(<<"--- AI Tools (List Format) ---", MsgNoTools>>
                                 \o ToolsPageVideoLines(d), "\n"))
         ELSE IF d.kind = "dict" THEN Raises("AttributeError")
         ELSE Value(JoinWith(<<"--- AI Tools (List Format) ---">>
                                 \o ToolListLines(d.items)
                                 \o ToolsPageVideoLines(d), "\n"))
    ELSE IF st = "generic_website"
    THEN IF ~Truthy(d)
         THEN Value(JoinWith(<<"--- Website Content (List Format) ---", MsgNoWebsiteData>>, "\n"))
         ELSE IF d.kind = "list" THEN Raises("AttributeError")
         ELSE Value(JoinWith(<<"--- Website Content (List Format) ---">>
                                 \o LinkListLines(Get(d, "links", <<>>))
                                 \o VideoListLines(Get(d, "youtube_videos", <<>>)), "\n"))
    ELSE Value(MsgInvalidSourceType)

(***************************************************************************)
(* information_organizer.py: format_data_as_paragraphs.                    *)
(***************************************************************************)
\* lines 106-116
ToolParagraph(tool) ==
    "Tool: " \o tool.name \o "\n"
        \o "Description: "
        \o (IF tool.summarized_description # "" THEN tool.summarized_description
            ELSE tool.description) \o "\n"
        \o "Website: " \o tool.website_link \o "\n"
        \o (IF tool.futuretools_link # NA
            THEN "FutureTools Page: " \o tool.futuretools_link \o "\n" ELSE "")

\* lines 124-131
MainTextParagraph(main_text) ==
    IF main_text # "" /\ summarizer # "None"
    THEN "Website Summary:\n"
             \o summarize_text(main_text, PageSummaryMaxLength, PageSummaryMinLength)
    ELSE IF main_text # ""
    THEN "Website Summary:\n(Summarizer not available or text too short). Full text snippet:\n"
             \o Prefix(main_text, SnippetChars) \o "..."
    ELSE "No main text content extracted to summarize."

\* lines 133-140: nothing is appended for an empty list
LinksParagraphs(links) ==
    IF links # <<>>
    THEN <<"Key Hyperlinks Found:\n"
             \o JoinWith([i \in 1..Len(Prefix(links, ParagraphShown)) |->
                             "- " \o links[i].text \o " (" \o links[i].href \o ")\n"], "")
             \o (IF Len(links) > ParagraphShown
                 THEN "...and " \o ToString(Len(links) - ParagraphShown) \o " more links."
                 ELSE "")>>
    ELSE <<>>

\* lines 142-147: nothing is appended for an empty list
VideosParagraphs(videos) ==
    IF videos # <<>>
    THEN <<"YouTube Videos Found:\n"
             \o JoinWith([i \in 1..Len(videos) |->
                             "- " \o videos[i].title \o " (" \o videos[i].url \o ")\n"], "")>>
    ELSE <<>>

\* lines 85-152
format_data_as_paragraphs(d, st) ==
    IF st = "futuretools"
    THEN IF ~Truthy(d)
         THEN Value(JoinWith(<<"--- AI Tools (Paragraph Format) ---", MsgNoTools>>, "\n\n"))
         ELSE IF d.kind = "dict" THEN Raises("AttributeError")
         ELSE Value(JoinWith(<<"--- AI Tools (Paragraph Format) ---">>
                                 \o [i \in 1..Len(d.items) |-> ToolParagraph(d.items[i])],
                             "\n\n"))
    ELSE IF st = "generic_website"
    THEN IF ~Truthy(d)
         THEN Value(JoinWith(<<"--- Website Content (Paragraph Format) ---",
                               MsgNoWebsiteData>>, "\n\n"))
         ELSE IF d.kind = "list" THEN Raises("AttributeError")
         ELSE Value(JoinWith(<<"--- Website Content (Paragraph Format) ---",
                               MainTextParagraph(Get(d, "text", ""))>>
                                 \o LinksParagraphs(Get(d, "links", <<>>))
                                 \o VideosParagraphs(Get(d, "youtube_videos", <<>>)),
                             "\n\n"))
    ELSE Value(MsgInvalidSourceType)

(***************************************************************************)
(* futuretools_parser.py: extract_tools_from_futuretools, step by step.    *)
(***************************************************************************)
\* what fetch_and_parse_website hands back: None, a dict without "soup",
\* or a dict with the document tree
FetchOutcomes == {"None", "no_soup", "soup"}

Line(msg, n) == [msg |-> msg, n |-> n]

\* mutant of SelectContainers: the matches of both selectors together
SelectContainersBoth(doc) == Select(doc, {"tool-card", "item", "collection-item"})

\* lines 79-83
SelectContainers(doc) ==
    LET primary == Select(doc, {"tool-card"})
    IN  IF primary # <<>> THEN primary
        ELSE Select(doc, {"item", "collection-item"})

\* line 285: the number printed for "Tools missing a discernible Name"
MissingNamesShown(k, n_containers) ==
    IF k.processed_tools_count = 0 /\ n_containers > 0
    THEN k.missing_names_count
    ELSE k.missing_names_count
             + (IF k.missing_names_count = 0
                THEN n_containers - k.processed_tools_count ELSE 0)

\* lines 271-294
SummaryLines(k, n_containers, found) ==
    <<Line("--- Futuretools Parsing Summary ---", 0)>>
    \o (IF n_containers = 0
        THEN <<Line("No potential tool containers were identified on the page.", 0)>>
        ELSE <<Line("Processed potential tool containers", n_containers),
               Line("Successfully extracted tools", k.processed_tools_count),
               Line("Tools missing a discernible Name",
                    MissingNamesShown(k, n_containers)),
               Line("Tools missing an External Website Link",
                    k.missing_website_links_count),
               Line("Tools missing an Internal FutureTools Link",
                    k.missing_ft_links_count),
               Line("Tools missing a Description", k.missing_descriptions_count)>>)
    \o (IF found = <<>> /\ n_containers > 0
        THEN <<Line("No tools extracted that met the criteria", 0)>>
        ELSE <<>>)

Init ==
    /\ page \in Pages
    /\ summarizer \in {"None"} \cup Pipelines
    /\ pc = "start"
    /\ run = 1
    /\ parsed = "unset"
    /\ tool_containers = <<>>
    /\ idx = 0
    /\ tools_found = <<>>
    /\ src_index = <<>>
    /\ counts = ZeroCounts
    /\ cur = NoLocals
    /\ calls = <<>>
    /\ log = <<>>
    /\ returned = <<>>
    /\ data = NoneData
    /\ source_type = "futuretools"
    /\ formatted = <<>>

\* line 39: not parsed_data
FetchFailed(outcome) == outcome = "None"

\* mutant of SoupMissing: the check for a missing tree left out
SoupNeverMissing(outcome) == FALSE

\* lines 49-51: not parsed_data.get("soup")
SoupMissing(outcome) == outcome # "soup"

\* line 296 and the early returns: what the caller receives from one call
Returned(outcome, list) == [parsed |-> outcome, tools |-> list]

\* lines 35-99: fetch, the two early returns, container discovery and its
\* early return, the counters.  soup.select on a missing tree raises
\* AttributeError (pc "raised").
Begin(outcome) ==
    /\ pc = "start"
    /\ parsed' = outcome
    /\ tools_found' = NewToolsFound
    /\ src_index' = <<>>
    /\ calls' = <<>>
    /\ cur' = NoLocals
    /\ idx' = 0
    /\ counts' = ZeroCounts
    /\ IF FetchFailed(outcome)
       THEN /\ log' = <<Line("Failed to fetch or parse the website.", 0)>>
            /\ tool_containers' = <<>>
            /\ returned' = Append(returned, Returned(outcome, tools_found'))
            /\ pc' = "returned"
       ELSE IF SoupMissing(outcome)
       THEN /\ log' = <<Line("BeautifulSoup object not found in parsed_data.", 0)>>
            /\ tool_containers' = <<>>
            /\ returned' = Append(returned, Returned(outcome, tools_found'))
            /\ pc' = "returned"
       ELSE IF outcome # "soup"
       THEN /\ log' = <<>>
            /\ tool_containers' = <<>>
            /\ returned' = returned
            /\ pc' = "raised"
       ELSE LET found == SelectContainers(page)
                primary == Select(page, {"tool-card"})
            IN  /\ tool_containers' = found
                /\ IF found = <<>>
                   THEN /\ log' = <<Line("Could not find any elements matching assumed tool container selectors", 0)>>
                        /\ returned' = Append(returned, Returned(outcome, tools_found'))
                        /\ pc' = "returned"
                   ELSE /\ log' = (IF primary = <<>>
                                   THEN <<Line("Found potential tool containers with class 'item' or 'collection-item'.", 0)>>
                                   ELSE <<>>)
                                  \o <<Line("Found potential tool containers", Len(found))>>
                        /\ returned' = returned
                        /\ pc' = "loop"
    /\ UNCHANGED <<page, summarizer, run>>
    /\ UNCHANGED presenterVars

\* lines 101-269: one iteration of the loop over tool_containers
ProcessContainer ==
    /\ pc = "loop"
    /\ idx < Len(tool_containers)
    /\ LET l == Locals(tool_containers[idx + 1])
       IN  /\ cur' = l
           /\ calls' = IF NeedsSummary([value |-> l.description,
                                            has |-> l.current_tool_has_description])
                       THEN Append(calls, [text |-> l.description,
                                           max_length |-> SummaryMaxLength,
                                           min_length |-> SummaryMinLength])
                       ELSE calls
           /\ tools_found' = IF Accepted(l) THEN AppendTool(tools_found, ToolRecord(l))
                             ELSE tools_found
           /\ src_index' = IF Accepted(l) THEN AppendTool(src_index, idx + 1)
                           ELSE src_index
           /\ counts' = UpdateCounts(counts, l, Len(tool_containers))
    /\ idx' = idx + 1
    /\ UNCHANGED <<page, summarizer, pc, run, parsed, tool_containers, log, returned>>
    /\ UNCHANGED presenterVars

\* lines 271-296: the summary and the return
Finish ==
    /\ pc = "loop"
    /\ idx = Len(tool_containers)
    /\ log' = log \o SummaryLines(counts, Len(tool_containers), tools_found)
    /\ returned' = Append(returned, Returned(parsed, tools_found))
    /\ pc' = "returned"
    /\ UNCHANGED <<page, summarizer, run, parsed, tool_containers, idx, tools_found,
                   src_index, counts, cur, calls>>
    /\ UNCHANGED presenterVars

\* the caller calls extract_tools_from_futuretools again on the same page
CallAgain ==
    /\ pc = "returned"
    /\ run < MaxRuns
    /\ pc' = "start"
    /\ run' = run + 1
    /\ UNCHANGED <<page, summarizer, parsed, tool_containers, idx, tools_found,
                   src_index, counts, cur, calls, log, returned>>
    /\ UNCHANGED presenterVars

Next ==
    \/ \E outcome \in FetchOutcomes : Begin(outcome)
    \/ ProcessContainer
    \/ Finish
    \/ CallAgain

Spec == Init /\ [][Next]_vars

TypeOK ==
    /\ pc \in {"start", "loop", "returned", "raised"}
    /\ run \in 1..MaxRuns
    /\ idx \in 0..Len(tool_containers)
    /\ Len(returned) \in {run - 1, run}
    /\ Len(src_index) = Len(tools_found)

(***************************************************************************)
(* information_organizer.py: the presenters applied to given arguments.    *)
(***************************************************************************)
PresenterInit ==
    /\ data \in DataInputs
    /\ source_type \in SourceTypes
    /\ formatted = <<>>
    /\ summarizer \in {"None"} \cup Pipelines
    /\ page = <<>>
    /\ pc = "present"
    /\ run = 1
    /\ parsed = "unset"
    /\ tool_containers = <<>>
    /\ idx = 0
    /\ tools_found = <<>>
    /\ src_index = <<>>
    /\ counts = ZeroCounts
    /\ cur = NoLocals
    /\ calls = <<>>
    /\ log = <<>>
    /\ returned = <<>>

Called(fn) == \E k \in 1..Len(formatted) : formatted[k].fn = fn

extractorVars ==
    <<page, summarizer, pc, run, parsed, tool_containers, idx, tools_found, src_index,
      counts, cur, calls, log, returned>>

\* a call of format_data_as_list(data, source_type)
FormatAsList ==
    /\ pc = "present"
    /\ ~Called("format_data_as_list")
    /\ formatted' = Append(formatted, [fn |-> "format_data_as_list",
                                       result |-> format_data_as_list(data, source_type)])
    /\ UNCHANGED <<data, source_type>>
    /\ UNCHANGED extractorVars

\* a call of format_data_as_paragraphs(data, source_type)
FormatAsParagraphs ==
    /\ pc = "present"
    /\ ~Called("format_data_as_paragraphs")
    /\ formatted' = Append(formatted, [fn |-> "format_data_as_paragraphs",
                                       result |-> format_data_as_paragraphs(data, source_type)])
    /\ UNCHANGED <<data, source_type>>
    /\ UNCHANGED extractorVars

PresenterNext == FormatAsList \/ FormatAsParagraphs

SpecPresenter == PresenterInit /\ [][PresenterNext]_vars

(***************************************************************************)
(* Properties.                                                             *)
(***************************************************************************)
\* every list a finished call handed back, and the list being built
OutputLists == {returned[r].tools : r \in 1..Len(returned)} \cup {tools_found}

OutputRecords == UNION {{list[k] : k \in 1..Len(list)} : list \in OutputLists}

\* the container the last loop iteration processed
LastContainer == tool_containers[idx]

Processed == idx > 0

\* a loop iteration is taken in this step
Iterates == pc = "loop" /\ idx' = idx + 1

\* C1: in every record of every returned list the name is a non-empty string
\* and at least one of website_link / futuretools_link is not "N/A".
C1_RecordInvariant ==
    \A rec \in OutputRecords :
        /\ rec.name # ""
        /\ Len(rec.name) > 0
        /\ (rec.website_link # "N/A" \/ rec.futuretools_link # "N/A")

C1_Witness ==
    /\ pc = "returned"
    /\ \E rec \in OutputRecords : rec.website_link = "N/A" /\ rec.futuretools_link # "N/A"
    /\ \E rec \in OutputRecords : rec.website_link # "N/A" /\ rec.futuretools_link = "N/A"

\* C2: a loop iteration appends exactly one record if and only if the name was
\* resolved and the website link or the directory link was resolved; in every
\* other case the output list is left as it was.
C2_AcceptanceStep ==
    [][Iterates =>
          IF cur'.current_tool_has_name
                 /\ (cur'.current_tool_has_website_link \/ cur'.current_tool_has_ft_link)
          THEN /\ Len(tools_found') = Len(tools_found) + 1
               /\ SubSeq(tools_found', 1, Len(tools_found)) = tools_found
               /\ tools_found'[Len(tools_found')].name = cur'.name
          ELSE tools_found' = tools_found]_vars

C2_Witness ==
    /\ idx = 2
    /\ Len(tools_found) = 1
    /\ src_index = <<1>>
    /\ cur.current_tool_has_name
    /\ ~cur.current_tool_has_website_link
    /\ ~cur.current_tool_has_ft_link

IsAbsoluteHttpUrl(u) == StartsWith(u, "http://") \/ StartsWith(u, "https://")

\* C3: in every output record website_link is either "N/A" or an absolute
\* http(s) URL that does not refer to the source domain futuretools.io.
C3_WebsiteLinkExternal ==
    \A rec \in OutputRecords :
        \/ rec.website_link = "N/A"
        \/ /\ IsAbsoluteHttpUrl(rec.website_link)
           /\ ~Contains(rec.website_link, "futuretools.io")

\* the hrefs of a container and of its descendants
HrefsOf(c) ==
    {c.href[k] : k \in 1..Len(c.href)}
        \cup UNION {{c.kids[j].href[k] : k \in 1..Len(c.kids[j].href)} : j \in 1..Len(c.kids)}

\* C4: whenever a directory link is resolved from a relative href (beginning
\* with "/"), the stored link is "https://www.futuretools.io" followed by that
\* href; "/tool/acme-ai" becomes "https://www.futuretools.io/tool/acme-ai".
C4_RelativeLinkRebased ==
    Processed /\ cur.current_tool_has_ft_link =>
        /\ \E h \in HrefsOf(LastContainer) :
               /\ StartsWith(h, "/")
               /\ cur.futuretools_link_internal = "https://www.futuretools.io" \o h
        /\ (LastContainer.tag # "a" /\ TitleLink \in {LastContainer.kids[j] : j \in 1..Len(LastContainer.kids)}
               => cur.futuretools_link_internal = "https://www.futuretools.io/tool/acme-ai")

C4_Witness ==
    /\ Processed
    /\ cur.current_tool_has_ft_link
    /\ LastContainer.tag # "a"
    /\ cur.futuretools_link_internal = "https://www.futuretools.io/tool/acme-ai"
    /\ tools_found # <<>>

\* the call of summarize_text the extractor makes for a description
SummaryCall(text) == [text |-> text, max_length |-> 50, min_length |-> 15]

\* C5: for a container with a resolved description, summarize_text is called
\* (with max_length=50, min_length=15) exactly when the description has more
\* than 30 words, and its result becomes summarized_description; with 30 words
\* or fewer it is not called and summarized_description equals description.
C5_SummarizeStep ==
    [][Iterates /\ cur'.current_tool_has_description =>
          IF WordCount(cur'.description) > 30
          THEN /\ calls' = Append(calls, SummaryCall(cur'.description))
               /\ cur'.summarized_description = summarize_text(cur'.description, 50, 15)
          ELSE /\ calls' = calls
               /\ cur'.summarized_description = cur'.description]_vars

C5_Witness ==
    /\ Processed
    /\ summarizer = "abridging"
    /\ cur.current_tool_has_description
    /\ WordCount(cur.description) = 31
    /\ calls = <<SummaryCall(cur.description)>>
    /\ cur.summarized_description # cur.description
    /\ WordCount(cur.summarized_description) = 15

\* C6: when the summarizer is disabled or raises, the summarized_description
\* of a container whose description has more than 30 words equals the
\* original description.
C6_DegradesToDescription ==
    Processed /\ summarizer \in {"None", "raising"}
        /\ cur.current_tool_has_description /\ WordCount(cur.description) > 30
        => cur.summarized_description = cur.description

\* C7: when neither selector matches any element, the call returns an empty
\* list without raising and prints the summary with its line for zero
\* containers.
C7_ZeroContainersSummary ==
    pc = "returned" /\ parsed = "soup" /\ tool_containers = <<>> =>
        /\ returned[Len(returned)].tools = <<>>
        /\ \E k \in 1..Len(log) :
               log[k] = Line("No potential tool containers were identified on the page.", 0)

\* C8: when the fetcher returns no data, or data without a document tree, the
\* call returns an empty list and does not raise; no container is processed
\* and summarize_text is not called.
C8_FetchFailureEmpty ==
    /\ pc # "raised"
    /\ parsed \in {"None", "no_soup"} =>
           /\ pc \in {"returned", "start"}
           /\ returned[Len(returned)] = [parsed |-> parsed, tools |-> <<>>]
           /\ tool_containers = <<>>
           /\ idx = 0
           /\ calls = <<>>

C8_Witness ==
    /\ pc = "returned"
    /\ parsed = "no_soup"
    /\ SelectContainers(page) # <<>>
    /\ Len(returned) = 2
    /\ returned[1].parsed = "soup"
    /\ returned[1].tools # <<>>

\* C9: two calls on the same static page (the summarizer being deterministic)
\* return identical lists, in the same order.
C9_Idempotent ==
    \A r1, r2 \in 1..Len(returned) :
        returned[r1].parsed = "soup" /\ returned[r2].parsed = "soup"
            => returned[r1].tools = returned[r2].tools

C9_Witness ==
    /\ Len(returned) = 2
    /\ returned[1].parsed = "soup"
    /\ returned[2].parsed = "soup"
    /\ Len(returned[2].tools) = 2
    /\ returned[2].tools[1] # returned[2].tools[2]

\* C10: the output keeps the container discovery order and no container yields
\* more than one record: the containers of the records are strictly increasing
\* in the discovered sequence, and each record is the one of its container.
C10_DiscoveryOrder ==
    /\ Len(src_index) = Len(tools_found)
    /\ \A a, b \in 1..Len(src_index) : a < b => src_index[a] < src_index[b]
    /\ \A k \in 1..Len(src_index) :
           /\ src_index[k] \in 1..idx
           /\ tools_found[k].name = ExtractName(tool_containers[src_index[k]]).value

C10_Witness ==
    /\ pc = "returned"
    /\ Len(tool_containers) = 3
    /\ src_index = <<1, 3>>
    /\ tools_found[1].name # tools_found[2].name

\* the number of records of the returned list satisfying Missing
MissingAmong(list, Missing(_)) == Cardinality({k \in 1..Len(list) : Missing(list[k])})

\* C11: after all containers are processed, each per-field miss count (website
\* link, directory link, description) equals the number of accepted records in
\* which that field is unresolved; rejected containers add nothing to them.
C11_MissCountsAmongAccepted ==
    pc = "returned" /\ parsed = "soup" /\ tool_containers # <<>> =>
        /\ counts.missing_website_links_count
               = MissingAmong(tools_found, LAMBDA rec : rec.website_link = "N/A")
        /\ counts.missing_ft_links_count
               = MissingAmong(tools_found, LAMBDA rec : rec.futuretools_link = "N/A")
        /\ counts.missing_descriptions_count
               = Cardinality({k \in 1..Len(src_index) :
                     ~Locals(tool_containers[src_index[k]]).current_tool_has_description})

\* the positions at which the lines of a text start
LineStarts(s) == {1} \cup {i + 1 : i \in {j \in 1..Len(s) : Ch(s, j) = "\n"}}

\* the line of s that starts at position p
LineAt(s, p) ==
    LET ends == {j \in p..Len(s) : Ch(s, j) = "\n"}
    IN  SubSeq(s, p, IF ends = {} THEN Len(s) ELSE SetMin(ends) - 1)

\* the text has a line of the "No ..." kind that speaks of the collection
NoneFoundLine(s, word) ==
    \E p \in LineStarts(s) : StartsWith(LineAt(s, p), "No") /\ Contains(LineAt(s, p), word)

\* C12: in both presenter formats and for both source kinds, every collection
\* that is empty or absent (the tools list, the hyperlinks, the videos, the
\* data itself) gets an explicit "none found" line in the returned text.
C12_EmptyCollectionsReported ==
    \A k \in 1..Len(formatted) :
        ~formatted[k].result.raised =>
            /\ source_type = "futuretools" /\ ~Truthy(data) =>
                   NoneFoundLine(formatted[k].result.value, "tools")
            /\ source_type = "generic_website" /\ ~Truthy(data) =>
                   NoneFoundLine(formatted[k].result.value, "data")
            /\ source_type = "generic_website" /\ Truthy(data) =>
                   /\ Get(data, "links", <<>>) = <<>> =>
                          NoneFoundLine(formatted[k].result.value, "links")
                   /\ Get(data, "youtube_videos", <<>>) = <<>> =>
                          NoneFoundLine(formatted[k].result.value, "ideos")

\* the list format does report the empty collections of a page
C12_ListFormatReports ==
    \A k \in 1..Len(formatted) :
        formatted[k].fn = "format_data_as_list" /\ ~formatted[k].result.raised
            /\ source_type = "generic_website" /\ Truthy(data) =>
                /\ Get(data, "links", <<>>) = <<>> =>
                       NoneFoundLine(formatted[k].result.value, "links")
                /\ Get(data, "youtube_videos", <<>>) = <<>> =>
                       NoneFoundLine(formatted[k].result.value, "ideos")

\* C13: for a source_type other than "futuretools" and "generic_website" both
\* presenter functions return the fixed error string and do not raise,
\* whatever the data.
C13_InvalidSourceTypeMessage ==
    source_type \notin {"futuretools", "generic_website"} =>
        \A k \in 1..Len(formatted) :
            /\ ~formatted[k].result.raised
            /\ formatted[k].result.value
                   = "Invalid source_type provided. Use 'futuretools' or 'generic_website'."

C13_Witness ==
    /\ source_type = "Futuretools"
    /\ data.kind = "list" /\ data.items # <<>>
    /\ Called("format_data_as_list")
    /\ Called("format_data_as_paragraphs")

\* the candidate of each name strategy, in chain order: classed heading, any
\* heading, classed link, first link (0 where the strategy finds no element)
NameChain(c) ==
    << Find({k \in Kids(c) : c.kids[k].tag \in {"h2", "h3", "h4"}
                 /\ HasClassIn(c.kids[k], {"tool-name", "tool-title", "card-title"})}),
       Find({k \in Kids(c) : c.kids[k].tag \in {"h2", "h3", "h4"}}),
       Find({k \in Kids(c) : c.kids[k].tag = "a"
                 /\ HasClassIn(c.kids[k], {"title", "name"})}),
       Find({k \in Kids(c) : c.kids[k].tag = "a"}) >>

\* the strategies whose candidate has non-empty trimmed text
TextualStrategies(c) ==
    {s \in 1..4 : NameChain(c)[s] # 0 /\ Strip(c.kids[NameChain(c)[s]].text) # ""}

\* C14: a candidate whose trimmed text is empty is disqualified and the chain
\* continues: whenever some strategy's candidate has non-empty text, the name
\* is resolved, to the text of the first such candidate in chain order.
C14_EmptyCandidateSkipped ==
    Processed /\ TextualStrategies(LastContainer) # {} =>
        /\ cur.current_tool_has_name
        /\ cur.name = Strip(LastContainer.kids[
                          NameChain(LastContainer)[SetMin(TextualStrategies(LastContainer))]].text)

\* a container with no heading, no link of class title/name and no link with
\* non-empty text
NoNameSource(c) ==
    \A k \in Kids(c) :
        /\ c.kids[k].tag \notin {"h2", "h3", "h4"}
        /\ c.kids[k].tag = "a" =>
               /\ ~HasClassIn(c.kids[k], {"title", "name"})
               /\ Strip(c.kids[k].text) = ""

\* C15: for a container with no heading, no link of class title/name and no
\* link with non-empty text the name stays unresolved ("N/A", flag unset) and
\* the container is not accepted; an empty string is never a resolved name.
C15_NoNameUnresolved ==
    /\ pc # "raised"
    /\ Processed => (cur.current_tool_has_name => cur.name # "")
    /\ Processed /\ NoNameSource(LastContainer) =>
           /\ ~cur.current_tool_has_name
           /\ cur.name = "N/A"
           /\ \A k \in 1..Len(src_index) : src_index[k] # idx

C15_Witness ==
    /\ Processed
    /\ NoNameSource(LastContainer)
    /\ \E k \in Kids(LastContainer) : LastContainer.kids[k].tag = "a"
    /\ cur.current_tool_has_ft_link
    /\ cur.current_tool_has_website_link
    /\ tools_found = <<>>

\* the elements of the page whose class attribute contains sub
ElementsWithClass(sub) ==
    {n \in {Flatten(page)[k] : k \in 1..Len(Flatten(page))} : Contains(ClassAttr(n), sub)}

ContainerSet == {tool_containers[k] : k \in 1..Len(tool_containers)}

\* C16: if some element's class contains "tool-card", the containers are
\* exactly those elements (the item selector is not used, and its notice is
\* not printed); the matches of the item selector are the containers only when
\* "tool-card" matches nothing.
C16_FirstSelectorWins ==
    parsed = "soup" /\ pc \in {"loop", "returned"} =>
        IF ElementsWithClass("tool-card") # {}
        THEN /\ ContainerSet = ElementsWithClass("tool-card")
             /\ \A k \in 1..Len(log) :
                    log[k].msg # "Found potential tool containers with class 'item' or 'collection-item'."
        ELSE ContainerSet = ElementsWithClass("item")

C16_Witness ==
    /\ pc = "returned"
    /\ parsed = "soup"
    /\ ElementsWithClass("tool-card") # {}
    /\ ElementsWithClass("item") \ ElementsWithClass("tool-card") # {}
    /\ tools_found # <<>>

\* the first descendant link with an external/visit/outbound class, 0 if none
MarkedLink(c) ==
    Find({k \in Kids(c) : c.kids[k].tag = "a"
              /\ HasClassIn(c.kids[k], {"external-link", "website-button",
                                        "tool-website-link", "outbound",
                                        "visit-tool-button"})})

\* an absolute http(s) URL that is not on the source domain
OffDomainHttpUrl(h) == IsAbsoluteHttpUrl(h) /\ ~Contains(h, "futuretools.io")

\* C17: when the container's marked link has an href that is not an absolute
\* http(s) URL off the source domain, the candidate is discarded and
\* website_link stays unresolved, whatever other links the container holds.
C17_MarkedLinkNotSubstituted ==
    Processed /\ MarkedLink(LastContainer) # 0
        /\ ~OffDomainHttpUrl(GetHref(LastContainer.kids[MarkedLink(LastContainer)], ""))
        => /\ ~cur.current_tool_has_website_link
           /\ cur.website_link = "N/A"

\* The same for the marked links the code does reject (an href that is empty,
\* does not start with "http", or contains "futuretools.io"): the generic
\* search is not run for them.
C17_RejectedMarkNotSubstituted ==
    Processed /\ MarkedLink(LastContainer) # 0
        /\ (LET h == GetHref(LastContainer.kids[MarkedLink(LastContainer)], "")
            IN  h = "" \/ ~StartsWith(h, "http") \/ Contains(h, "futuretools.io"))
        => /\ ~cur.current_tool_has_website_link
           /\ cur.website_link = "N/A"

C17_RejectedMarkWitness ==
    /\ Processed
    /\ MarkedLink(LastContainer) # 0
    /\ \E k \in Kids(LastContainer) :
           /\ k # MarkedLink(LastContainer)
           /\ OffDomainHttpUrl(GetHref(LastContainer.kids[k], ""))
    /\ cur.website_link = "N/A"

\* the first descendant p/div with a description class, 0 if none
DescriptionElement(c) ==
    Find({k \in Kids(c) : c.kids[k].tag \in {"p", "div"}
              /\ HasClassIn(c.kids[k], {"description", "tool-description", "card-text",
                                        "item-description", "tool-card-description"})})

\* the paragraphs whose trimmed text has more than 20 characters
LongParagraphs(c) ==
    {k \in Kids(c) : c.kids[k].tag = "p" /\ Len(Strip(c.kids[k].text)) > 20}

\* C18: if the description-classed element is absent, or present with empty
\* trimmed text, the chain goes on to the first paragraph whose trimmed text
\* exceeds 20 characters: where there is one, the description is resolved to it.
C18_DescriptionFallsThrough ==
    Processed
        /\ (DescriptionElement(LastContainer) = 0
               \/ Strip(LastContainer.kids[DescriptionElement(LastContainer)].text) = "")
        /\ LongParagraphs(LastContainer) # {}
        => /\ cur.current_tool_has_description
           /\ cur.description = Strip(LastContainer.kids[SetMin(LongParagraphs(LastContainer))].text)

\* what is left of the container's full trimmed text once the name is taken
\* off its front
TextAfterName(c, name) ==
    LET whole == Strip(JoinWith(Strings(c), " "))
    IN  IF StartsWith(whole, name) THEN Strip(SubSeq(whole, Len(name) + 1, Len(whole)))
        ELSE whole

C19_LinkTextWitness ==
    /\ Processed
    /\ cur.current_tool_has_name
    /\ Len(TextAfterName(LastContainer, cur.name)) > 30
    /\ TextAfterName(LastContainer, cur.name) = cur.futuretools_link_internal
    /\ ~cur.current_tool_has_description

\* C20: in every accepted record whose description was not resolved,
\* summarized_description equals description and both are "N/A".
C20_UnresolvedDescriptionSentinel ==
    \A k \in 1..Len(src_index) :
        ~Locals(tool_containers[src_index[k]]).current_tool_has_description =>
            /\ tools_found[k].summarized_description = tools_found[k].description
            /\ tools_found[k].description = "N/A"
            /\ tools_found[k].summarized_description = "N/A"

\* C21: in every output record the description is the sentinel "N/A" or a
\* non-empty text, never the empty string.
C21_DescriptionNeverEmpty ==
    \A rec \in OutputRecords : rec.description = "N/A" \/ Len(rec.description) > 0

\* the numbers the summary printed as "Successfully extracted ... tools"
ExtractedShown == {log[j].n : j \in {i \in 1..Len(log) : log[i].msg = "Successfully extracted tools"}}

C22_CounterIsLength ==
    /\ parsed = "soup" /\ pc \in {"loop", "returned"} =>
           /\ counts.processed_tools_count = Len(tools_found)
           /\ counts.processed_tools_count <= idx
           /\ idx <= Len(tool_containers)
    /\ parsed = "soup" /\ pc = "returned" /\ tool_containers # <<>> =>
           /\ ExtractedShown = {Len(returned[Len(returned)].tools)}
           /\ Len(returned[Len(returned)].tools) <= Len(tool_containers)

C22_TogetherStep ==
    (counts'.processed_tools_count = counts.processed_tools_count + 1)
        <=> (Len(tools_found') = Len(tools_found) + 1)

\* C22: at the end of every run that processed containers the reported
\* accepted-tools counter equals the length of the returned list and is at
\* most the number of containers; the counter is incremented in exactly the
\* steps in which the list is appended to.
C22_CounterMatchesList == []C22_CounterIsLength /\ [][C22_TogetherStep]_vars

C22_Witness ==
    /\ pc = "returned"
    /\ Len(tool_containers) = 2
    /\ Len(tools_found) = 1
    /\ ExtractedShown = {1}
    /\ ~Accepted(Locals(tool_containers[2]))
    /\ Locals(tool_containers[2]).current_tool_has_name

\* C23: in every output record futuretools_link is "N/A" or begins with
\* "https://www.futuretools.io/tool/" or "https://www.futuretools.io/tools/",
\* whether it came from the container's own href or from a descendant link.
C23_DirectoryLinkAbsolute ==
    \A rec \in OutputRecords :
        \/ rec.futuretools_link = "N/A"
        \/ StartsWith(rec.futuretools_link, "https://www.futuretools.io/tool/")
        \/ StartsWith(rec.futuretools_link, "https://www.futuretools.io/tools/")

C23_Witness ==
    /\ pc = "returned"
    /\ \E j, k \in 1..Len(tools_found) :
           /\ tool_containers[src_index[j]].tag = "a"
           /\ tools_found[j].futuretools_link = "https://www.futuretools.io/tools/acme"
           /\ tool_containers[src_index[k]].tag # "a"
           /\ tools_found[k].futuretools_link = "https://www.futuretools.io/tool/acme-ai"

====
